---------------------------- MODULE Spec2Model ----------------------------
(***************************************************************************)
(* The four demonstration programs of the repository as one state machine. *)
(*                                                                         *)
(*   raceCondition.cpp         program = "NONE"    counter++ unprotected   *)
(*   mutex.cpp                 program = "MUTEX"   counter++ under mtx     *)
(*   atomic.cpp                program = "ATOMIC"  counter.fetch_add(1)    *)
(*   simpleMultiThreading.cpp  program = "PRINT"   printMessage(id)        *)
(*                                                                         *)
(* Every program has the same main: construct the threads one after the    *)
(* other (a thread may run as soon as it is constructed), join them in     *)
(* order, report, return 0.  The source fixes 1000000 iterations and two    *)
(* threads; Init draws the loop bound n from 0 .. MaxIter and the thread   *)
(* count t from 1 .. NumThreads (main with only t1, and main as written).  *)
(*                                                                         *)
(* counter++ on a plain int is a load, an add in a register and a store.   *)
(* In raceCondition.cpp the two threads do this without synchronisation,   *)
(* which is a data race: the outcome depends on the build.  Two builds are *)
(* modelled, chosen nondeterministically in Init:                          *)
(*   hoisted = FALSE  one load and one store per iteration (unoptimised)   *)
(*   hoisted = TRUE   the loop collapsed to one load and one store of      *)
(*                    load + n (what an optimising compiler emits for a    *)
(*                    loop that only increments a non-volatile global)     *)
(* In mutex.cpp the load and store are the same two steps, inside the      *)
(* lock_guard's scope.  In atomic.cpp fetch_add is one step.               *)
(*                                                                         *)
(* counter is a 32-bit int; it never exceeds t * n (2000000 in the source, *)
(* at most NumThreads * MaxIter here), so no arithmetic wraps and the      *)
(* model uses unbounded integers.  The relaxed ordering of fetch_add       *)
(* concerns other memory only: the add itself is indivisible, and join     *)
(* orders every step of a thread before main's read of the counter.        *)
(***************************************************************************)
EXTENDS Integers, Sequences, FiniteSets, TLC

\* Bound of the model: the largest loop bound n that Init draws.
MaxIter == 4

\* main constructs exactly two threads, t1 and t2.
NumThreads == 2

Programs == {"NONE", "MUTEX", "ATOMIC", "PRINT"}

VARIABLES
    program,   \* which of the four executables runs
    n,         \* the loop bound (1000000 in the source)
    t,         \* the number of worker threads (2 in the source)
    hoisted,   \* build of raceCondition.cpp, see above
    counter,   \* the global counter
    mtx,       \* std::mutex mtx: the set of threads holding it
    state,     \* lifecycle of each constructed thread, in construction order
    i,         \* each thread's loop index
    pc,        \* each thread's position in its function
    reg,       \* each thread's register holding the loaded counter
    mpc,       \* main's position
    mk,        \* main: the thread it constructs or joins next
    out,       \* standard output, a sequence of chunks
    exit       \* the process's exit code once main has returned

vars == <<program, n, t, hoisted, counter, mtx, state, i, pc, reg,
          mpc, mk, out, exit>>

Workers == 1 .. t

\* One insertion into std::cout.
Chunk(src, kind, val) == [src |-> src, kind |-> kind, val |-> val]

Init ==
    /\ program \in Programs
    /\ t \in 1 .. NumThreads
    /\ n \in (IF program = "PRINT" THEN {0} ELSE 0 .. MaxIter)
    /\ hoisted \in (IF program = "NONE" THEN BOOLEAN ELSE {FALSE})
    /\ counter = 0
    /\ mtx = {}
    /\ state = << >>
    /\ i = [w \in Workers |-> 0]
    /\ pc = [w \in Workers |-> "entry"]
    /\ reg = [w \in Workers |-> 0]
    /\ mpc = "create"
    /\ mk = 1
    /\ out = << >>
    /\ exit = << >>

Created == DOMAIN state

Running(w) == w \in Created /\ state[w] = "RUNNING"

Terminated(w) == w \in Created /\ state[w] = "TERMINATED"

----------------------------------------------------------------------------
(* The worker threads *)

\* The thread starts executing its function: int i = 0.
ThreadStart(w) ==
    /\ w \in Created /\ state[w] = "CREATED"
    /\ state' = [state EXCEPT ![w] = "RUNNING"]
    /\ i' = [i EXCEPT ![w] = 0]
    /\ pc' = [pc EXCEPT ![w] = IF program = "PRINT" THEN "prefix" ELSE "test"]
    /\ UNCHANGED <<program, n, t, hoisted, counter, mtx, reg, mpc, mk, out, exit>>

\* Off-by-one variants of the loop condition.
LoopCond_OneMore(w) == i[w] <= n

LoopCond_OneShort(w) == i[w] < n - 1

\* The loop condition i < 1000000.
LoopCond(w) == i[w] < n

\* First statement of the loop body.
BodyEntry ==
    CASE program = "NONE" -> "load"
      [] program = "MUTEX" -> "lock"
      [] program = "ATOMIC" -> "fetch_add"

\* for (...; i < n; ...): enter the body, or fall out of the loop and return.
LoopTest(w) ==
    /\ Running(w) /\ pc[w] = "test"
    /\ IF LoopCond(w)
         THEN /\ pc' = [pc EXCEPT ![w] = BodyEntry]
              /\ state' = state
         ELSE /\ pc' = [pc EXCEPT ![w] = "returned"]
              /\ state' = [state EXCEPT ![w] = "TERMINATED"]
    /\ UNCHANGED <<program, n, t, hoisted, counter, mtx, i, reg, mpc, mk, out, exit>>

\* A lock that never blocks.
CanLock_NoWait(w) == TRUE

\* std::mutex::lock blocks while another thread owns the mutex.
CanLock(w) == mtx = {}

\* std::lock_guard<std::mutex> lock(mtx)
Lock(w) ==
    /\ Running(w) /\ pc[w] = "lock"
    /\ CanLock(w)
    /\ mtx' = mtx \cup {w}
    /\ pc' = [pc EXCEPT ![w] = "load"]
    /\ UNCHANGED <<program, n, t, hoisted, counter, state, i, reg, mpc, mk, out, exit>>

\* counter++, first half: load counter into a register.
Load(w) ==
    /\ Running(w) /\ pc[w] = "load"
    /\ reg' = [reg EXCEPT ![w] = counter]
    /\ pc' = [pc EXCEPT ![w] = "store"]
    /\ UNCHANGED <<program, n, t, hoisted, counter, mtx, state, i, mpc, mk, out, exit>>

\* How many iterations one load/store pair stands for.
Stride(w) == IF hoisted THEN n - i[w] ELSE 1

\* A store that adds to the counter's current value instead of the register.
Store_Indivisible(w) ==
    /\ Running(w) /\ pc[w] = "store"
    /\ counter' = counter + Stride(w)
    /\ pc' = [pc EXCEPT ![w] = "end"]
    /\ UNCHANGED <<program, n, t, hoisted, mtx, state, i, reg, mpc, mk, out, exit>>

\* counter-- written for counter++.
Store_Decrement(w) ==
    /\ Running(w) /\ pc[w] = "store"
    /\ counter' = reg[w] - Stride(w)
    /\ pc' = [pc EXCEPT ![w] = "end"]
    /\ UNCHANGED <<program, n, t, hoisted, mtx, state, i, reg, mpc, mk, out, exit>>

\* counter++, second half: store register + 1 (register + n once hoisted).
Store(w) ==
    /\ Running(w) /\ pc[w] = "store"
    /\ counter' = reg[w] + Stride(w)
    /\ pc' = [pc EXCEPT ![w] = "end"]
    /\ UNCHANGED <<program, n, t, hoisted, mtx, state, i, reg, mpc, mk, out, exit>>

\* counter.store(counter.load() + 1) in place of fetch_add: only the load
\* happens in this step, the store follows separately.
FetchAdd_LoadThenStore(w) ==
    /\ Running(w) /\ pc[w] = "fetch_add"
    /\ reg' = [reg EXCEPT ![w] = counter]
    /\ pc' = [pc EXCEPT ![w] = "store"]
    /\ UNCHANGED <<program, n, t, hoisted, counter, mtx, state, i, mpc, mk, out, exit>>

\* counter.fetch_add(1, std::memory_order_relaxed): one indivisible step.
FetchAdd(w) ==
    /\ Running(w) /\ pc[w] = "fetch_add"
    /\ counter' = counter + 1
    /\ pc' = [pc EXCEPT ![w] = "end"]
    /\ UNCHANGED <<program, n, t, hoisted, mtx, state, i, reg, mpc, mk, out, exit>>

\* mtx.lock() without the guard: nothing releases the mutex.
EndIteration_NoUnlock(w) ==
    /\ Running(w) /\ pc[w] = "end"
    /\ i' = [i EXCEPT ![w] = i[w] + Stride(w)]
    /\ pc' = [pc EXCEPT ![w] = "test"]
    /\ UNCHANGED <<program, n, t, hoisted, counter, mtx, state, reg, mpc, mk, out, exit>>

\* The loop index declared at namespace scope, shared by the threads.
EndIteration_SharedIndex(w) ==
    /\ Running(w) /\ pc[w] = "end"
    /\ mtx' = mtx \ {w}
    /\ i' = [v \in DOMAIN i |-> i[w] + Stride(w)]
    /\ pc' = [pc EXCEPT ![w] = "test"]
    /\ UNCHANGED <<program, n, t, hoisted, counter, state, reg, mpc, mk, out, exit>>

\* End of the loop body: the lock_guard (if any) goes out of scope and
\* releases mtx, then i++.
EndIteration(w) ==
    /\ Running(w) /\ pc[w] = "end"
    /\ mtx' = mtx \ {w}
    /\ i' = [i EXCEPT ![w] = i[w] + Stride(w)]
    /\ pc' = [pc EXCEPT ![w] = "test"]
    /\ UNCHANGED <<program, n, t, hoisted, counter, state, reg, mpc, mk, out, exit>>

\* std::cout << "Thread " << id << " is running\n" is three insertions, each
\* of them one call on the shared stream; the last one ends printMessage.
PrintNext(kind) ==
    CASE kind = "prefix" -> "id"
      [] kind = "id" -> "suffix"
      [] kind = "suffix" -> "returned"

\* Both threads constructed with the same argument: printMessage, 1.
printMessage_SameId(w) ==
    /\ Running(w) /\ pc[w] \in {"prefix", "id", "suffix"}
    /\ out' = Append(out, Chunk(w, pc[w], IF pc[w] = "id" THEN 1 ELSE 0))
    /\ pc' = [pc EXCEPT ![w] = PrintNext(pc[w])]
    /\ state' = IF pc[w] = "suffix" THEN [state EXCEPT ![w] = "TERMINATED"] ELSE state
    /\ UNCHANGED <<program, n, t, hoisted, counter, mtx, i, reg, mpc, mk, exit>>

printMessage(w) ==
    /\ Running(w) /\ pc[w] \in {"prefix", "id", "suffix"}
    /\ out' = Append(out, Chunk(w, pc[w], IF pc[w] = "id" THEN w ELSE 0))
    /\ pc' = [pc EXCEPT ![w] = PrintNext(pc[w])]
    /\ state' = IF pc[w] = "suffix" THEN [state EXCEPT ![w] = "TERMINATED"] ELSE state
    /\ UNCHANGED <<program, n, t, hoisted, counter, mtx, i, reg, mpc, mk, exit>>

incrementCounter(w) ==
    \/ LoopTest(w)
    \/ Lock(w)
    \/ Load(w)
    \/ Store(w)
    \/ FetchAdd(w)
    \/ EndIteration(w)

Worker(w) == ThreadStart(w) \/ incrementCounter(w) \/ printMessage(w)

----------------------------------------------------------------------------
(* main *)

\* std::thread t1(...); std::thread t2(...);
MainCreate ==
    /\ mpc = "create"
    /\ state' = Append(state, "CREATED")
    /\ IF mk = t
         THEN mpc' = "join" /\ mk' = 1
         ELSE mpc' = mpc /\ mk' = mk + 1
    /\ UNCHANGED <<program, n, t, hoisted, counter, mtx, i, pc, reg, out, exit>>

\* A join that does not wait for the thread to finish.
Joinable_NoWait(k) == k \in Created

\* std::thread::join returns once the thread's function has returned.
Joinable(k) == Terminated(k)

AfterJoins == IF program = "PRINT" THEN "return" ELSE "report"

\* t1.join(); t2.join();
MainJoin ==
    /\ mpc = "join"
    /\ Joinable(mk)
    /\ IF mk = t
         THEN mpc' = AfterJoins /\ mk' = mk
         ELSE mpc' = mpc /\ mk' = mk + 1
    /\ UNCHANGED <<program, n, t, hoisted, counter, mtx, state, i, pc, reg, out, exit>>

\* std::cout << "Final counter value: " << counter << std::endl;
MainReport ==
    /\ mpc = "report"
    /\ out' = Append(out, Chunk(0, "value", counter))
    /\ mpc' = "return"
    /\ UNCHANGED <<program, n, t, hoisted, counter, mtx, state, i, pc, reg, mk, exit>>

\* return 0;
MainReturn ==
    /\ mpc = "return"
    /\ exit' = <<0>>
    /\ mpc' = "exited"
    /\ UNCHANGED <<program, n, t, hoisted, counter, mtx, state, i, pc, reg, mk, out>>

main == MainCreate \/ MainJoin \/ MainReport \/ MainReturn

----------------------------------------------------------------------------

Next ==
    \/ MainCreate
    \/ MainJoin
    \/ MainReport
    \/ MainReturn
    \/ \E w \in Workers : ThreadStart(w)
    \/ \E w \in Workers : LoopTest(w)
    \/ \E w \in Workers : Lock(w)
    \/ \E w \in Workers : Load(w)
    \/ \E w \in Workers : Store(w)
    \/ \E w \in Workers : FetchAdd(w)
    \/ \E w \in Workers : EndIteration(w)
    \/ \E w \in Workers : printMessage(w)

Spec == Init /\ [][Next]_vars

\* The operating system schedules every thread that can run.
FairSpec == Spec /\ WF_vars(main) /\ \A w \in 1 .. NumThreads : WF_vars(Worker(w))

\* Every thread of the run has been constructed and has taken its first
\* load (or is past its first iteration).
AllLoadedOnce ==
    \A v \in Workers :
        v \in Created /\ (pc[v] \in {"store", "end"} \/ i[v] > 0)

\* One particular scheduling of raceCondition.cpp: no thread performs the
\* store of its first iteration before every thread has performed the load
\* of its first iteration.  Each disjunct is a disjunct of Next, one of them
\* with a further guard, so every behaviour of RaceSpec is a behaviour of
\* Spec: a schedule the operating system may produce.
RaceNext ==
    \/ MainCreate
    \/ MainJoin
    \/ MainReport
    \/ MainReturn
    \/ \E w \in Workers : ThreadStart(w)
    \/ \E w \in Workers : LoopTest(w)
    \/ \E w \in Workers : Lock(w)
    \/ \E w \in Workers : Load(w)
    \/ \E w \in Workers :
          /\ (program = "NONE" /\ i[w] = 0) => AllLoadedOnce
          /\ Store(w)
    \/ \E w \in Workers : FetchAdd(w)
    \/ \E w \in Workers : EndIteration(w)
    \/ \E w \in Workers : printMessage(w)

RaceSpec == Init /\ [][RaceNext]_vars

----------------------------------------------------------------------------
(* Vocabulary of the properties *)

\* The values main has written to standard output.
ValueChunks == {k \in DOMAIN out : out[k].kind = "value"}

Reported == ValueChunks # {}

\* Main is past the report (counter programs) or past the joins (PRINT).
Finished == mpc \in {"return", "exited"}

AllTerminated == \A w \in Workers : Terminated(w)

\* The threads inside the loop body of mutex.cpp, after the lock_guard's
\* construction and before its destruction.
InBody == {w \in Workers : pc[w] \in {"load", "store", "end"}}

MinOf(a, b) == IF a < b THEN a ELSE b

----------------------------------------------------------------------------
(* C1 *)

\* C1: in mutex.cpp, whatever the interleaving, the one value main reports
\* after the joins is exactly t * n.
C1_MutexFinalValue ==
    (program = "MUTEX" /\ Finished) => out = <<Chunk(0, "value", t * n)>>

C1_Witness ==
    /\ program = "MUTEX" /\ mpc = "exited" /\ t = 2 /\ n = 3
    /\ out = <<Chunk(0, "value", 6)>>

(* C2 *)

\* C2: in atomic.cpp, whatever the interleaving, the value counter.load()
\* returns in main after the joins is exactly t * n: no fetch_add is lost.
C2_AtomicFinalValue ==
    (program = "ATOMIC" /\ Finished) => out = <<Chunk(0, "value", t * n)>>

C2_Witness ==
    /\ program = "ATOMIC" /\ mpc = "exited" /\ t = 2 /\ n = 3
    /\ out = <<Chunk(0, "value", 6)>>

(* C3 *)

\* C3 as stated: in raceCondition.cpp with two threads the value reported
\* after the joins is at least n.
C3_LowerBoundIsN ==
    (program = "NONE" /\ t = 2 /\ Finished) =>
        \A k \in ValueChunks : out[k].val >= n

\* C3 amended: in raceCondition.cpp with two threads the value reported
\* after the joins is at least the smaller of n and 2.
C3_LowerBoundIsMinOfNAnd2 ==
    (program = "NONE" /\ t = 2 /\ Finished) =>
        /\ Reported
        /\ \A k \in ValueChunks : out[k].val >= MinOf(n, 2)

\* Three iterations each, and the run reports 2.
C3_Witness ==
    /\ program = "NONE" /\ ~hoisted /\ t = 2 /\ n = 3 /\ mpc = "exited"
    /\ out = <<Chunk(0, "value", 2)>>

(* C4 *)

\* C4: in raceCondition.cpp the counter never exceeds t * n, in any state,
\* and so neither does the value reported.
C4_UpperBound ==
    program = "NONE" =>
        /\ counter <= t * n
        /\ \A k \in ValueChunks : out[k].val <= t * n

\* The bound is attained: a run without a lost update.
C4_Witness ==
    /\ program = "NONE" /\ ~hoisted /\ t = 2 /\ n = 3 /\ mpc = "exited"
    /\ counter = 6
    /\ out = <<Chunk(0, "value", 6)>>

(* C5 *)

\* C5: in mutex.cpp at most one thread is inside the loop body at a time,
\* and the threads inside it are exactly those holding mtx.
C5_MutualExclusion ==
    program = "MUTEX" =>
        /\ Cardinality(InBody) <= 1
        /\ mtx = InBody

\* Contention: one thread between load and store, the other at the lock.
C5_Witness ==
    /\ program = "MUTEX" /\ t = 2
    /\ \E w \in Workers, v \in Workers :
          /\ w # v
          /\ Running(w) /\ pc[w] = "store" /\ mtx = {w}
          /\ Running(v) /\ pc[v] = "lock"

(* C6 *)

\* C6: in the three counter programs main reads and reports the counter only
\* when every thread has terminated, reports at most once (exactly once by
\* the time it returns), and the counter does not change after the report.
C6_JoinBeforeRead ==
    /\ [](program # "PRINT" =>
            /\ (mpc = "report" \/ Reported) => AllTerminated
            /\ Cardinality(ValueChunks) <= 1
            /\ Finished => Cardinality(ValueChunks) = 1)
    /\ [][program # "PRINT" =>
            /\ (out' # out) => (AllTerminated /\ ~Reported)
            /\ Reported => (counter' = counter /\ i' = i /\ pc' = pc)]_vars

C6_Witness ==
    /\ program = "MUTEX" /\ t = 2 /\ n = 2 /\ mpc = "exited"
    /\ AllTerminated
    /\ Cardinality(ValueChunks) = 1

(* C7 *)

\* C7: under fair scheduling every run ends with every thread terminated and
\* main returned with exit code 0; no state before main's return is a
\* deadlock; a thread waiting at the lock always gets past it.
C7_Termination ==
    /\ <>(mpc = "exited" /\ exit = <<0>> /\ AllTerminated)
    /\ [](mpc # "exited" => ENABLED Next)
    /\ \A w \in 1 .. NumThreads :
          (w \in Workers /\ pc[w] = "lock") ~> (w \in Workers /\ pc[w] # "lock")

\* A run of mutex.cpp with two threads has come to its end.
C7_Witness ==
    /\ program = "MUTEX" /\ t = 2 /\ n = 2
    /\ mpc = "exited" /\ exit = <<0>>
    /\ AllTerminated /\ mtx = {}

(* C8 *)

\* The insertions of thread w's identifier into the output.
IdEvents(w) == {k \in DOMAIN out : out[k].kind = "id" /\ out[k].val = w}

AllIdEvents == {k \in DOMAIN out : out[k].kind = "id"}

\* What thread w has written so far, in order.
FromThread(c, w) == c.src = w

MessageOf(w) == SelectSeq(out, LAMBDA c : FromThread(c, w))

\* "Thread ", id, " is running\n"
WholeMessage(w) == <<Chunk(w, "prefix", 0), Chunk(w, "id", w), Chunk(w, "suffix", 0)>>

\* C8: in simpleMultiThreading.cpp every thread emits its identifier at most
\* once, and main gets past the joins only when every thread has emitted its
\* whole message: exactly one identifier event per thread, t in all (the
\* chunks of different threads may interleave within a line).
C8_OneEventPerThread ==
    program = "PRINT" =>
        /\ \A w \in Workers : Cardinality(IdEvents(w)) <= 1
        /\ \A k \in AllIdEvents : out[k].src = out[k].val
        /\ Finished =>
              /\ \A w \in Workers : Cardinality(IdEvents(w)) = 1
              /\ Cardinality(AllIdEvents) = t
              /\ \A w \in Workers : MessageOf(w) = WholeMessage(w)
              /\ AllTerminated

C8_Witness ==
    /\ program = "PRINT" /\ t = 2 /\ mpc = "exited"
    /\ Cardinality(IdEvents(1)) = 1
    /\ Cardinality(IdEvents(2)) = 1

(* C9 *)

\* C9: with n = 0, in the three counter programs no thread ever enters the
\* loop body, mtx is never taken, the counter stays 0 and 0 is reported.
C9_ZeroIterations ==
    (program # "PRINT" /\ n = 0) =>
        /\ counter = 0
        /\ mtx = {}
        /\ \A w \in Workers : pc[w] \in {"entry", "test", "returned"} /\ i[w] = 0
        /\ \A k \in ValueChunks : out[k].val = 0
        /\ Finished => out = <<Chunk(0, "value", 0)>>

C9_Witness ==
    /\ program = "MUTEX" /\ n = 0 /\ t = 2 /\ mpc = "exited"
    /\ AllTerminated
    /\ out = <<Chunk(0, "value", 0)>>

(* C10 *)

\* C10: raceCondition.cpp with two or more threads and n >= 1 has a run that
\* reports less than t * n.  Checked under RaceSpec, the schedule in which
\* all first loads precede all first stores: every run of that schedule that
\* gets to the report has lost an update.
C10_LostUpdate ==
    (program = "NONE" /\ t >= 2 /\ n >= 1 /\ Finished) =>
        /\ Reported
        /\ \A k \in ValueChunks : out[k].val < t * n

C10_Witness ==
    /\ program = "NONE" /\ ~hoisted /\ t = 2 /\ n = 3 /\ mpc = "exited"
    /\ \E k \in ValueChunks : out[k].val < 6

(* C11 *)

\* The increments thread w has completed: one per finished iteration, plus
\* the one of the current iteration once its store or fetch_add is done and
\* only the i++ is left.
Completed(w) == i[w] + (IF pc[w] = "end" THEN 1 ELSE 0)

RECURSIVE TotalCompleted(_)
TotalCompleted(S) ==
    IF S = {} THEN 0
    ELSE LET w == CHOOSE x \in S : TRUE
         IN  Completed(w) + TotalCompleted(S \ {w})

\* C11: in mutex.cpp and atomic.cpp the counter equals, in every reachable
\* state, the number of increments all threads have completed so far.
C11_NoLostIncrement ==
    program \in {"MUTEX", "ATOMIC"} => counter = TotalCompleted(Workers)

\* Mid-run in mutex.cpp: both threads have finished one iteration, one of
\* them has just stored its second increment, the other waits at the lock.
C11_Witness ==
    /\ program = "MUTEX" /\ t = 2 /\ n >= 2
    /\ counter = 3
    /\ \E w \in Workers, v \in Workers :
          /\ w # v
          /\ i[w] = 1 /\ pc[w] = "end"
          /\ i[v] = 1 /\ pc[v] = "lock"

(* C12 *)

\* Thread w is between two iterations' bodies: at the loop test or waiting
\* at the lock_guard's construction.
BetweenIncrements(w) == Running(w) /\ pc[w] \in {"test", "lock"}

\* C12: in mutex.cpp a thread holds mtx only inside one iteration's body:
\* mtx is free whenever no thread is in the body, a thread at the loop test,
\* at the lock or terminated does not hold it, and while one thread is
\* between two increments another thread waiting at the lock can take it.
C12_FineGrainedLocking ==
    program = "MUTEX" =>
        /\ InBody = {} => mtx = {}
        /\ \A w \in mtx : w \in InBody
        /\ \A w \in Workers : Terminated(w) => w \notin mtx
        /\ \A w \in Workers, v \in Workers :
              (w # v /\ BetweenIncrements(w) /\ Running(v) /\ pc[v] = "lock")
                  => ENABLED Lock(v)

\* Thread w has done one increment and waits for its second; thread v took
\* the lock after it, loaded the 1 that w stored, and is about to store 2.
C12_Witness ==
    /\ program = "MUTEX" /\ t = 2 /\ n >= 2
    /\ \E w \in Workers, v \in Workers :
          /\ w # v
          /\ i[w] = 1 /\ pc[w] = "lock"
          /\ mtx = {v} /\ pc[v] = "store" /\ reg[v] = 1
          /\ counter = 1

(* C13 *)

\* The lifecycle steps a constructed thread may take.
LifecycleStep(from, to) ==
    \/ to = from
    \/ from = "CREATED" /\ to = "RUNNING"
    \/ from = "RUNNING" /\ to = "TERMINATED"

\* C13: a thread is CREATED, RUNNING or TERMINATED and only moves forward
\* along CREATED -> RUNNING -> TERMINATED.  In mutex.cpp and atomic.cpp every
\* change of the counter is one thread completing one increment, a thread
\* completes at most n of them, it terminates only from the loop test with
\* i = n (n increments done), and once i = n its next step is that test.
C13_WorkerLifecycle ==
    /\ [](/\ \A w \in Created : state[w] \in {"CREATED", "RUNNING", "TERMINATED"}
          /\ program \in {"MUTEX", "ATOMIC"} =>
                \A w \in Workers :
                    /\ Completed(w) <= n
                    /\ Terminated(w) => (i[w] = n /\ Completed(w) = n)
                    /\ (Running(w) /\ i[w] = n) => pc[w] = "test"
                    /\ w \notin Created => Completed(w) = 0)
    /\ [][/\ \A w \in Created :
                /\ w \in DOMAIN state'
                /\ LifecycleStep(state[w], state'[w])
          /\ program \in {"MUTEX", "ATOMIC"} =>
                \A w \in Workers :
                    /\ Completed(w)' \in {Completed(w), Completed(w) + 1}
                    /\ (Completed(w)' = Completed(w) + 1) =>
                          (Running(w) /\ counter' = counter + 1)
                    /\ (counter' # counter) =>
                          (\E v \in Workers : Completed(v)' = Completed(v) + 1)
                    /\ (Running(w) /\ state'[w] = "TERMINATED") =>
                          (pc[w] = "test" /\ i[w] = n)]_vars

\* atomic.cpp, n = 2: one thread has done its two increments and terminated
\* while the other is still running with one done.
C13_Witness ==
    /\ program = "ATOMIC" /\ t = 2 /\ n = 2
    /\ \E w \in Workers, v \in Workers :
          /\ Terminated(w) /\ i[w] = 2
          /\ Running(v) /\ i[v] = 1 /\ pc[v] = "fetch_add"
    /\ counter = 3

(* C14 *)

\* Thread w waits at the lock_guard's construction for another thread's mtx.
WaitsForLock(w) == pc[w] = "lock" /\ mtx \ {w} # {}

\* C14: a constructed thread that has not terminated can always take a step
\* in raceCondition.cpp and atomic.cpp; in mutex.cpp it cannot exactly when
\* it is at the lock and another thread holds mtx.  Before its return, main
\* cannot take a step exactly when it is at the join of a thread that has
\* not terminated.
C14_BlockOnlyOnMutex ==
    /\ \A w \in Created :
          ~Terminated(w) =>
              /\ program \in {"NONE", "ATOMIC"} => ENABLED Worker(w)
              /\ program = "MUTEX" =>
                    ((~ENABLED Worker(w)) <=> (Running(w) /\ WaitsForLock(w)))
    /\ mpc # "exited" =>
          ((~ENABLED main) <=> (mpc = "join" /\ ~Terminated(mk)))

\* mutex.cpp: a thread is blocked at the lock held by the other thread, and
\* main is blocked at t1.join().
C14_Witness ==
    /\ program = "MUTEX" /\ t = 2
    /\ mpc = "join" /\ mk = 1 /\ ~ENABLED main
    /\ \E w \in Workers, v \in Workers :
          /\ w # v
          /\ Running(w) /\ pc[w] = "lock" /\ ~ENABLED Worker(w)
          /\ mtx = {v} /\ ENABLED Worker(v)

(* C15 *)

\* C15 as stated: in raceCondition.cpp no step decreases the counter.
C15_CounterNeverDecreases ==
    [][program = "NONE" => counter' >= counter]_vars

\* Thread w's step is the store of its counter++.
Stores(w) == pc[w] = "store" /\ pc'[w] = "end"

\* C15 amended: in raceCondition.cpp the counter changes only by a thread's
\* store, every store writes more than the value its thread loaded, and the
\* counter decreases only by a stale store: one whose thread loaded before
\* other threads' stores raised the counter by two or more.
C15_DecreaseOnlyByStaleStore ==
    [][program = "NONE" =>
          /\ (counter' # counter) => (\E w \in Workers : Stores(w))
          /\ \A w \in Workers :
                Stores(w) =>
                    /\ counter' > reg[w]
                    /\ (counter' < counter) =>
                          (~hoisted /\ counter' = reg[w] + 1 /\ counter >= reg[w] + 2)]_vars

\* Thread v has completed two iterations and thread w has just stored the 1
\* it computed from the 0 it loaded at the start: the counter went down.
C15_Witness ==
    /\ program = "NONE" /\ ~hoisted /\ t = 2 /\ n >= 2
    /\ \E w \in Workers, v \in Workers :
          /\ w # v
          /\ pc[w] = "end" /\ i[w] = 0 /\ reg[w] = 0
          /\ pc[v] = "test" /\ i[v] = 2
    /\ counter = 1

(* C16 *)

IsIdChunk(c) == c.kind = "id"

\* The identifiers on standard output, in the order they were written.
IdOrder ==
    LET ids == SelectSeq(out, IsIdChunk)
    IN  [k \in 1 .. Len(ids) |-> ids[k].val]

\* Both threads of simpleMultiThreading.cpp are about to write their id.
BothAboutToWriteId ==
    /\ program = "PRINT" /\ t = 2
    /\ Running(1) /\ pc[1] = "id"
    /\ Running(2) /\ pc[2] = "id"

\* C16: in simpleMultiThreading.cpp with two threads, wherever both threads
\* are about to write their identifier either of them can write first,
\* making the order start with 1 or with 2; identifiers once written stay in
\* place, and a finished run shows both of them, as 1, 2 or as 2, 1.
C16_EitherOrder ==
    /\ [](/\ BothAboutToWriteId =>
                /\ ENABLED (printMessage(1) /\ IdOrder' = <<1>>)
                /\ ENABLED (printMessage(2) /\ IdOrder' = <<2>>)
          /\ (program = "PRINT" /\ t = 2 /\ Finished) =>
                IdOrder \in {<<1, 2>>, <<2, 1>>})
    /\ [][program = "PRINT" =>
            /\ Len(IdOrder') >= Len(IdOrder)
            /\ \A k \in 1 .. Len(IdOrder) : IdOrder'[k] = IdOrder[k]]_vars

\* Thread 2 was constructed second and main waits at t1.join(), and neither
\* identifier is out yet: the order is still open.
C16_Witness ==
    /\ BothAboutToWriteId
    /\ mpc = "join" /\ mk = 1
    /\ IdOrder = << >>

(* C17 *)

\* What a step of thread w must leave alone in the counter programs: the
\* other threads' loop index, position, register and lifecycle, the other
\* threads' hold on mtx (and mtx altogether outside mutex.cpp), main's
\* position, standard output, the exit code and the run's parameters.
FrameOf(w) ==
    /\ \A v \in Workers \ {w} :
          /\ i'[v] = i[v] /\ pc'[v] = pc[v] /\ reg'[v] = reg[v]
          /\ (v \in mtx') <=> (v \in mtx)
    /\ DOMAIN state' = DOMAIN state
    /\ \A v \in Created \ {w} : state'[v] = state[v]
    /\ program # "MUTEX" => mtx' = mtx
    /\ mpc' = mpc /\ mk' = mk /\ exit' = exit /\ out' = out
    /\ program' = program /\ n' = n /\ t' = t /\ hoisted' = hoisted

\* C17: every run starts with counter = 0 (mtx free, no thread constructed,
\* nothing written), and in the three counter programs a step of a thread
\* changes nothing but the counter, that thread's own loop index, position,
\* register and lifecycle and, in mutex.cpp, that thread's hold on mtx.
C17_Frame ==
    /\ (counter = 0 /\ mtx = {} /\ state = << >> /\ out = << >>)
    /\ [][program # "PRINT" =>
            \A w \in Workers : Worker(w) => FrameOf(w)]_vars

\* mutex.cpp: thread w has just finished an iteration while the other
\* thread is midway through its own and main waits at a join.
C17_Witness ==
    /\ program = "MUTEX" /\ t = 2 /\ n >= 2
    /\ mpc = "join"
    /\ \E w \in Workers, v \in Workers :
          /\ w # v
          /\ Running(w) /\ pc[w] = "test" /\ i[w] = 2
          /\ Running(v) /\ pc[v] = "store" /\ i[v] = 1 /\ mtx = {v}

=============================================================================
